---- MODULE Spec2Model ----
(***************************************************************************)
(* Model of calamari_ocr/ocr/dataset.py: the DataSet sample store with its *)
(* loaded flag, the bulk loader load_samples, and the two concrete sources *)
(* RawDataSet (in memory) and FileDataSet (files on disk).                 *)
(*                                                                         *)
(* Python values are tagged records: t is the Python type, v the payload.  *)
(* A str is a sequence of one-character strings, an ndarray the sequence   *)
(* of its pixels, a dict a function from its keys to values, a list a      *)
(* sequence of values.                                                     *)
(***************************************************************************)
EXTENDS Integers, Sequences, FiniteSets, TLC

VARIABLES
    cls,             \* class of the object: "none" before construction
    alive,           \* the constructor returned an object
    _samples,        \* self._samples: sequence of dicts
    loaded,          \* self.loaded
    has_images,      \* self.has_images
    has_texts,       \* self.has_texts
    skip_invalid,    \* self.skip_invalid
    remove_invalid,  \* self.remove_invalid
    _non_existing_as_empty, \* self._non_existing_as_empty (FileDataSet)
    fs,              \* the filesystem: existing path -> file content
    call,            \* name of the last operation called
    err,             \* the exception the last operation raised, or NoError
    ret,             \* the value the last operation returned
    loads,           \* number of _load_sample invocations of the last operation
    par              \* the parallel_map of the load_samples call in progress

vars == <<cls, alive, _samples, loaded, has_images, has_texts, skip_invalid,
          remove_invalid, _non_existing_as_empty, fs, call, err, ret, loads, par>>

obj == <<cls, alive, _samples, loaded, has_images, has_texts, skip_invalid,
         remove_invalid, _non_existing_as_empty>>

(***************************************************************************)
(* Bounds of the model.                                                    *)
(***************************************************************************)
\* longest store: the constructors and add_sample stop growing it there
MaxSamples == 3
\* longest sequence handed to a constructor (room is left for add_sample)
MaxInit == MaxSamples - 1

(***************************************************************************)
(* Python values.                                                          *)
(***************************************************************************)
None == [t |-> "NoneType"]
Str(s) == [t |-> "str", v |-> s]
PyInt(n) == [t |-> "int", v |-> n]
NdArray(px) == [t |-> "ndarray", v |-> px]
Dict(f) == [t |-> "dict", v |-> f]
List(s) == [t |-> "list", v |-> s]
Tuple(s) == [t |-> "tuple", v |-> s]
\* an operation that raised returns nothing
NoReturn == [t |-> "raised"]

\* Python truthiness of a path argument: None and "" are false
Truthy(x) == x.t = "str" /\ Len(x.v) > 0

\* "key in d"
HasKey(d, k) == k \in DOMAIN d.v
\* d[key] = value
SetItem(d, k, x) == Dict([j \in (DOMAIN d.v) \cup {k} |-> IF j = k THEN x ELSE d.v[j]])

NoError == [type |-> "none", msg |-> "", arg |-> None]
Exception(m, a) == [type |-> "Exception", msg |-> m, arg |-> a]
KeyError(k) == [type |-> "KeyError", msg |-> k, arg |-> None]
TypeError(m) == [type |-> "TypeError", msg |-> m, arg |-> None]

\* str(i) of a non-negative int
Digit == <<"0", "1", "2", "3", "4", "5", "6", "7", "8", "9">>
RECURSIVE Digits(_)
Digits(i) == IF i < 10 THEN <<Digit[i + 1]>>
             ELSE Digits(i \div 10) \o <<Digit[(i % 10) + 1]>>
\* a numbering that starts at one
strFromOne(i) == Str(Digits(i + 1))
str(i) == Str(Digits(i))

(***************************************************************************)
(* numpy: size, amax, amin of a pixel sequence.                            *)
(***************************************************************************)
size(a) == Len(a.v)
amax(a) == CHOOSE m \in {a.v[i] : i \in 1..Len(a.v)} :
              \A i \in 1..Len(a.v) : a.v[i] <= m
amin(a) == CHOOSE m \in {a.v[i] : i \in 1..Len(a.v)} :
              \A i \in 1..Len(a.v) : a.v[i] >= m
\* np.zeros((h, w))
RECURSIVE zeros(_)
zeros(n) == IF n = 0 THEN <<>> ELSE <<0>> \o zeros(n - 1)

(***************************************************************************)
(* Paths and the filesystem.                                               *)
(***************************************************************************)
ImgA == Str(<<"a", "/", "f", ".", "p">>)
ImgBad == Str(<<"a", "/", "h", ".", "p">>)
ImgGone == Str(<<"a", "/", "m", ".", "p">>)
TxtA == Str(<<"a", "/", "f", ".", "t">>)
TxtGone == Str(<<"b", "/", "m", ".", "t">>)
ImagePaths == {ImgA, ImgBad, ImgGone}
TextPaths == {TxtA, TxtGone}

\* what each file of the universe holds when it exists: the image it decodes
\* to ("corrupt": the decoder raises), or its text
Content(p) ==
    CASE p = ImgA -> NdArray(<<0, 1>>)
      [] p = ImgBad -> [t |-> "corrupt"]
      [] p = TxtA -> Str(<<"x">>)

\* the disk: ImgGone and TxtGone are paths of no file
Disk == [p \in {ImgA, ImgBad, TxtA} |-> Content(p)]

\* os.path.exists
exists(p) == p \in DOMAIN fs

\* position of the last "/" of s, 0 if none
LastSlash(s) == IF \E i \in 1..Len(s) : s[i] = "/"
                THEN CHOOSE i \in 1..Len(s) :
                        s[i] = "/" /\ \A j \in (i + 1)..Len(s) : s[j] # "/"
                ELSE 0
\* os.path.split(p)[1]: what follows the last slash
FileName(s) == SubSeq(s, LastSlash(s) + 1, Len(s))
\* position of the first "." of s, Len(s) + 1 if none
FirstDot(s) == IF \E i \in 1..Len(s) : s[i] = "."
               THEN CHOOSE i \in 1..Len(s) :
                       s[i] = "." /\ \A j \in 1..(i - 1) : s[j] # "."
               ELSE Len(s) + 1
\* split_all_ext(fn)[0]: the file name without its extension(s)
split_all_ext(s) == SubSeq(s, 1, FirstDot(s) - 1)
\* base name of a path argument
BaseName(p) == Str(split_all_ext(FileName(p.v)))

(***************************************************************************)
(* FileDataSet._load_line, _load_gt_txt, _load_sample.  A partial result   *)
(* is [err, val]: the exception raised (NoError if none) and the value.    *)
(***************************************************************************)
Ok(x) == [err |-> NoError, val |-> x]
Raise(e) == [err |-> e, val |-> None]

\* skimage_io.imread inside try/except: a decode error gives None
imread(p) == IF fs[p].t = "corrupt" THEN None ELSE fs[p]

_load_line(image_path) ==
    IF image_path = None THEN Ok(None)
    ELSE IF ~exists(image_path)
         THEN IF _non_existing_as_empty THEN Ok(NdArray(zeros(1)))
              ELSE Raise(Exception("Image file at '{}' does not exist", image_path))
         ELSE Ok(imread(image_path))

_load_gt_txt(gt_txt_path) ==
    IF gt_txt_path = None THEN Ok(None)
    ELSE IF ~exists(gt_txt_path)
         THEN IF _non_existing_as_empty THEN Ok(Str(<<>>))
              ELSE Raise(Exception("Text file at '{}' does not exist", gt_txt_path))
         ELSE Ok(fs[gt_txt_path])

\* FileDataSet._load_sample: the tuple is evaluated left to right
File_load_sample(sample) ==
    IF ~HasKey(sample, "image_path") THEN Raise(KeyError("image_path"))
    ELSE LET line == _load_line(sample.v["image_path"])
         IN IF line.err # NoError THEN line
            ELSE IF ~HasKey(sample, "text_path") THEN Raise(KeyError("text_path"))
            ELSE LET text == _load_gt_txt(sample.v["text_path"])
                 IN IF text.err # NoError THEN text
                    ELSE Ok(Tuple(<<line.val, text.val>>))

\* RawDataSet._load_sample
Raw_load_sample(sample) == Raise(Exception("Raw dataset is always loaded", None))

\* DataSet._load_sample: the body of the abstract method
Base_load_sample(sample) == Ok(Tuple(<<NdArray(zeros(0)), None>>))

\* self._load_sample, dispatched on the class
_load_sample(sample) ==
    CASE cls = "FileDataSet" -> File_load_sample(sample)
      [] cls = "RawDataSet" -> Raw_load_sample(sample)
      [] OTHER -> Base_load_sample(sample)

(***************************************************************************)
(* DataSet.load_samples.                                                   *)
(***************************************************************************)
\* parallel_map(self._load_sample, self._samples): the results in the order
\* of the items
parallel_map(items) == [i \in 1..Len(items) |-> _load_sample(items[i])]

\* first position (1-based) of a sequence of booleans that holds TRUE, 0 if
\* none: where a loop over the sequence stops
FirstTrue(flags) ==
    IF \E i \in 1..Len(flags) : flags[i]
    THEN CHOOSE i \in 1..Len(flags) : flags[i] /\ \A j \in 1..(i - 1) : ~flags[j]
    ELSE 0

Raised(r) == r.err # NoError

\* line 162: the image is None, empty or flat
IsInvalidImage(line) ==
    line = None \/ (size(line) = 0 \/ amax(line) = amin(line))

\* a write-back that forgets line 159
StoreImageOnly(sample, r) == SetItem(sample, "image", r.val.v[1])

\* lines 158-159
StoreResult(sample, r) ==
    SetItem(SetItem(sample, "image", r.val.v[1]), "text", r.val.v[2])

\* sorted(idxs, reverse=True) of a sequence of distinct ints
RECURSIVE SortedReverse(_)
SortedReverse(idxs) ==
    IF idxs = <<>> THEN <<>>
    ELSE LET m == CHOOSE x \in {idxs[i] : i \in 1..Len(idxs)} :
                     \A i \in 1..Len(idxs) : idxs[i] <= x
             rest == SelectSeq(idxs, LAMBDA x : x # m)
         IN <<m>> \o SortedReverse(rest)

\* a removal without the reversed sort of line 174
RemovalOrderAscending(invalid_samples) == invalid_samples

\* line 174: the order in which the invalid positions are deleted
RemovalOrder(invalid_samples) == SortedReverse(invalid_samples)

\* del seq[i], i counted from 0
DelItem(seq, i) == [j \in 1..(Len(seq) - 1) |-> IF j <= i THEN seq[j] ELSE seq[j + 1]]

\* lines 174-175: the deletions in turn; [err, val] as an index may be out
\* of range
RECURSIVE DelAll(_, _)
DelAll(seq, idxs) ==
    IF idxs = <<>> THEN Ok(seq)
    ELSE IF Head(idxs) >= Len(seq)
         THEN [err |-> [type |-> "IndexError", msg |-> "list assignment index out of range",
                        arg |-> None],
               val |-> seq]
         ELSE DelAll(DelItem(seq, Head(idxs)), Tail(idxs))

\* lines 156-164: the 0-based positions that hold TRUE, ascending
TruePositions(flags) ==
    LET F[n \in 0..Len(flags)] ==
            IF n = 0 THEN <<>>
            ELSE IF flags[n] THEN Append(F[n - 1], n - 1) ELSE F[n - 1]
    IN F[Len(flags)]

\* a load_samples without the test of line 151
NeverEarlyReturn == FALSE

\* line 151: load_samples returns at once
EarlyReturn == loaded

\* a raise that is also tied to remove_invalid
RaisesOnInvalidIfRemoving == ~skip_invalid /\ remove_invalid

\* lines 163 and 169: an invalid image raises
RaisesOnInvalid == ~skip_invalid

\* a removal that ignores remove_invalid
AlwaysRemoves == TRUE

\* line 172: the invalid samples are deleted
Removes == remove_invalid

\* a raise after line 177 was moved in front of the loop
RaiseEmptyDataLoaded(stored, b) ==
    [err |-> Exception("Empty data: Image at '{}' is empty", _samples[b].v["id"]),
     samples |-> [i \in 1..Len(stored) |-> IF i <= b THEN stored[i] ELSE _samples[i]],
     loaded |-> TRUE]

\* line 170: the raise at position b (1-based), after lines 158-159 wrote
\* the samples up to b: [err, samples, loaded]
RaiseEmptyData(stored, b) ==
    [err |-> Exception("Empty data: Image at '{}' is empty", _samples[b].v["id"]),
     samples |-> [i \in 1..Len(stored) |-> IF i <= b THEN stored[i] ELSE _samples[i]],
     loaded |-> loaded]

\* lines 172-179 once every sample is written: [err, samples, loaded]
Finish(stored, invalid_samples) ==
    LET kept == IF Removes THEN DelAll(stored, RemovalOrder(invalid_samples))
                ELSE Ok(stored)
    IN [err |-> kept.err, samples |-> kept.val,
        loaded |-> IF kept.err = NoError THEN TRUE ELSE loaded]

\* a validity check that does not ask for has_images
BadWhateverDeclared(sample) == IsInvalidImage(sample.v["image"])

\* line 160-162 on a written sample
Bad(sample) == has_images /\ IsInvalidImage(sample.v["image"])

\* lines 156-177 on the results of the loads, none of which raised:
\* [err, samples, loaded]
WriteBack(data) ==
    LET n == Len(_samples)
        stored == [i \in 1..n |-> StoreResult(_samples[i], data[i])]
        bad == [i \in 1..n |-> Bad(stored[i])]
        b == FirstTrue(bad)
    IN IF b # 0 /\ RaisesOnInvalid
       THEN RaiseEmptyData(stored, b)
       ELSE Finish(stored, TruePositions(bad))

\* DataSet.load_samples(processes): an early return when loaded; else the
\* per-sample loads, the write-back with the validity check, the removal of
\* the invalid samples, loaded = True
load_samples(processes) ==
    /\ call' = "load_samples"
    /\ UNCHANGED <<cls, alive, has_images, has_texts, skip_invalid, remove_invalid,
                   _non_existing_as_empty, fs, par>>
    /\ IF EarlyReturn
       THEN /\ ret' = List(_samples)
            /\ err' = NoError
            /\ loads' = 0
            /\ UNCHANGED <<_samples, loaded>>
       ELSE LET data == parallel_map(_samples)
                n == Len(_samples)
                k == FirstTrue([i \in 1..n |-> Raised(data[i])])
            IN IF k # 0
               THEN \* a per-sample load raised: parallel_map propagates it;
                    \* with one process the later samples are not loaded
                    /\ err' = data[k].err
                    /\ ret' = NoReturn
                    /\ loads' \in (IF processes = 1 THEN {k} ELSE k..n)
                    /\ UNCHANGED <<_samples, loaded>>
               ELSE LET r == WriteBack(data)
                    IN /\ loads' = n
                       /\ _samples' = r.samples
                       /\ loaded' = r.loaded
                       /\ err' = r.err
                       /\ ret' = IF r.err = NoError THEN List(r.samples) ELSE NoReturn

(***************************************************************************)
(* load_samples step by step: parallel_map hands the samples to its        *)
(* workers, each worker returns the result of one _load_sample, and the    *)
(* results are put back in the order of the items before line 156 reads    *)
(* them.  par.out holds the (position, result) pairs in the order the      *)
(* workers completed, until load_samples returns or raises.                *)
(***************************************************************************)
Map(phase, processes, out) == [phase |-> phase, processes |-> processes, out |-> out]

\* no parallel_map was started yet
NoMap == Map("idle", 0, <<>>)

\* load_samples is inside parallel_map
Mapping == par.phase = "map"

\* a call of load_samples is in progress
InCall == par.phase # "idle"

\* the positions (1-based) whose load has not completed
Pending == {i \in 1..Len(_samples) : \A j \in 1..Len(par.out) : par.out[j].i # i}

\* results that are left in the order of completion
ReassembleByCompletion(out) == [j \in 1..Len(out) |-> out[j].r]

\* the results in the order of the items
Reassemble(out) ==
    [i \in 1..Len(out) |-> out[CHOOSE j \in 1..Len(out) : out[j].i = i].r]

\* lines 151-154: the early return, or the start of parallel_map
load_begin(processes) ==
    /\ ~InCall
    /\ call' = "load_samples"
    /\ err' = NoError
    /\ loads' = 0
    /\ IF EarlyReturn
       THEN ret' = List(_samples) /\ par' = NoMap
       ELSE ret' = NoReturn /\ par' = Map("map", processes, <<>>)
    /\ UNCHANGED <<obj, fs>>

\* the load of the sample at position i (1-based) completes; one process
\* loads the samples in their order, several complete in any order; an
\* exception ends parallel_map and load_samples with it
worker_done(i) ==
    /\ Mapping
    /\ i \in Pending
    /\ par.processes = 1 => \A j \in Pending : i <= j
    /\ LET r == _load_sample(_samples[i])
       IN IF Raised(r)
          THEN err' = r.err /\ par' = NoMap
          ELSE err' = err /\ par' = Map("map", par.processes, Append(par.out, [i |-> i, r |-> r]))
    /\ loads' = loads + 1
    /\ UNCHANGED <<obj, fs, call, ret>>

\* lines 156-177, once every load has completed; a raise ends the call
write_back ==
    /\ Mapping
    /\ Pending = {}
    /\ LET r == WriteBack(Reassemble(par.out))
       IN /\ _samples' = r.samples
          /\ loaded' = r.loaded
          /\ err' = r.err
          /\ par' = IF r.err = NoError THEN Map("done", par.processes, par.out) ELSE NoMap
    /\ UNCHANGED <<cls, alive, has_images, has_texts, skip_invalid, remove_invalid,
                   _non_existing_as_empty, fs, call, ret, loads>>

\* line 179: load_samples returns the store
load_return ==
    /\ par.phase = "done"
    /\ ret' = List(_samples)
    /\ par' = NoMap
    /\ UNCHANGED <<obj, fs, call, err, loads>>

(***************************************************************************)
(* DataSet.add_sample and the accessors.                                   *)
(***************************************************************************)
\* an add_sample without line 132
AddSampleKeepsFlag(store, flag, sample) ==
    IF sample.t # "dict"
    THEN [err |-> Exception("A sample is expected to be a dictionary", None),
          samples |-> store, loaded |-> flag]
    ELSE IF ~HasKey(sample, "id")
         THEN [err |-> Exception("A sample needs an id", None),
               samples |-> store, loaded |-> flag]
         ELSE [err |-> NoError, samples |-> Append(store, sample), loaded |-> flag]

\* an add_sample that inserts at the front
AddSamplePrepends(store, flag, sample) ==
    IF sample.t # "dict"
    THEN [err |-> Exception("A sample is expected to be a dictionary", None),
          samples |-> store, loaded |-> flag]
    ELSE IF ~HasKey(sample, "id")
         THEN [err |-> Exception("A sample needs an id", None),
               samples |-> store, loaded |-> flag]
         ELSE [err |-> NoError, samples |-> <<sample>> \o store, loaded |-> FALSE]

\* an add_sample with line 132 in front of the checks
AddSampleResetsFirst(store, flag, sample) ==
    IF sample.t # "dict"
    THEN [err |-> Exception("A sample is expected to be a dictionary", None),
          samples |-> store, loaded |-> FALSE]
    ELSE IF ~HasKey(sample, "id")
         THEN [err |-> Exception("A sample needs an id", None),
               samples |-> store, loaded |-> FALSE]
         ELSE [err |-> NoError, samples |-> Append(store, sample), loaded |-> FALSE]

\* lines 126-133 on a store and its flag: [err, samples, loaded]
AddSample(store, flag, sample) ==
    IF sample.t # "dict"
    THEN [err |-> Exception("A sample is expected to be a dictionary", None),
          samples |-> store, loaded |-> flag]
    ELSE IF ~HasKey(sample, "id")
         THEN [err |-> Exception("A sample needs an id", None),
               samples |-> store, loaded |-> flag]
         ELSE [err |-> NoError, samples |-> Append(store, sample), loaded |-> FALSE]

add_sample(sample) ==
    /\ Len(_samples) < MaxSamples
    /\ call' = "add_sample"
    /\ LET r == AddSample(_samples, loaded, sample)
       IN /\ _samples' = r.samples
          /\ loaded' = r.loaded
          /\ err' = r.err
          /\ ret' = IF r.err = NoError THEN None ELSE NoReturn
    /\ loads' = 0
    /\ UNCHANGED <<cls, alive, has_images, has_texts, skip_invalid, remove_invalid,
                   _non_existing_as_empty, fs, par>>

\* [sample[key] for sample in self._samples]: [err, val]
Column(key) ==
    LET k == FirstTrue([i \in 1..Len(_samples) |-> ~HasKey(_samples[i], key)])
    IN IF k # 0 THEN Raise(KeyError(key))
       ELSE Ok(List([i \in 1..Len(_samples) |-> _samples[i].v[key]]))

\* lines 67-70: [err, val]
PredictionSamples ==
    IF ~loaded
    THEN Raise(Exception("Dataset must be loaded to access its training samples", None))
    ELSE Column("image")

\* lines 80-83: [err, val]
TextSamples ==
    IF ~loaded
    THEN Raise(Exception("Dataset must be loaded to access its text", None))
    ELSE Column("text")

\* lines 102-116: the loop over the samples from position i on: [err, val]
\* with val the tuple (data, text)
RECURSIVE TrainLoop(_, _, _, _)
TrainLoop(i, skip_empty, data, text) ==
    IF i > Len(_samples) THEN Ok(Tuple(<<List(data), List(text)>>))
    ELSE LET sample == _samples[i]
         IN IF ~HasKey(sample, "text")
            THEN IF skip_empty THEN TrainLoop(i + 1, skip_empty, data, text)
                 ELSE Raise(Exception("Sample {} is not a train sample. Maybe the corresponding txt file is missing",
                                      sample.v["id"]))
            ELSE IF ~HasKey(sample, "image") THEN Raise(KeyError("image"))
                 ELSE TrainLoop(i + 1, skip_empty, Append(data, sample.v["image"]),
                                Append(text, sample.v["text"]))

\* a train_samples that never skips
TrainSamplesNeverSkips(skip_empty) ==
    IF ~loaded
    THEN Raise(Exception("Dataset must be loaded to access its training samples", None))
    ELSE TrainLoop(1, FALSE, <<>>, <<>>)

\* lines 99-116: [err, val]
TrainSamples(skip_empty) ==
    IF ~loaded
    THEN Raise(Exception("Dataset must be loaded to access its training samples", None))
    ELSE TrainLoop(1, skip_empty, <<>>, <<>>)

\* an accessor returns or raises and leaves the object alone
Observe(name, r) ==
    /\ call' = name
    /\ err' = r.err
    /\ ret' = IF r.err = NoError THEN r.val ELSE NoReturn
    /\ loads' = 0
    /\ UNCHANGED <<obj, fs, par>>

\* DataSet.__len__, lines 38-46
__len__ == Observe("__len__", Ok(PyInt(Len(_samples))))

\* DataSet.samples, lines 48-57
samples == Observe("samples", Ok(List(_samples)))

prediction_samples == Observe("prediction_samples", PredictionSamples)

text_samples == Observe("text_samples", TextSamples)

train_samples(skip_empty) == Observe("train_samples", TrainSamples(skip_empty))

\* the store shares its records with the caller: samples() returns the list
\* itself (line 57) and add_sample appends the caller's dict (line 133).
\* Here the caller deletes the text of the sample at position i (1-based):
\* del ds.samples()[i]["text"]
del_text(i) ==
    /\ i \in 1..Len(_samples)
    /\ HasKey(_samples[i], "text")
    /\ _samples' = [_samples EXCEPT
                       ![i] = Dict([k \in (DOMAIN @.v) \ {"text"} |-> @.v[k]])]
    /\ call' = "del_text"
    /\ err' = NoError
    /\ ret' = None
    /\ loads' = 0
    /\ UNCHANGED <<cls, alive, loaded, has_images, has_texts, skip_invalid,
                   remove_invalid, _non_existing_as_empty, fs, par>>

(***************************************************************************)
(* The constructors.  A constructor result is the object's fields and the  *)
(* exception raised, if any: no object exists after a raise.               *)
(***************************************************************************)
SeqsUpTo(S, n) == UNION {[1..k -> S] : k \in 0..n}
\* [x] * n
Repeat(x, n) == [i \in 1..n |-> x]
Min(a, b) == IF a < b THEN a ELSE b

\* a constructor without the test of line 35
DataSet_initUnchecked(hi, ht) == NoError

\* DataSet.__init__, lines 26-36: the exception raised, or NoError
DataSet_init(hi, ht) ==
    IF ~hi /\ ~ht THEN Exception("Empty data set is not allowed.", None) ELSE NoError

\* the object left by a constructor
Construct(class, r) ==
    /\ cls' = class
    /\ alive' = (r.err = NoError)
    /\ _samples' = r.samples
    /\ loaded' = r.loaded
    /\ has_images' = r.has_images
    /\ has_texts' = r.has_texts
    /\ skip_invalid' = r.skip_invalid
    /\ remove_invalid' = r.remove_invalid
    /\ _non_existing_as_empty' = r.non_existing_as_empty
    /\ call' = "__init__"
    /\ err' = r.err
    /\ ret' = IF r.err = NoError THEN None ELSE NoReturn
    /\ loads' = 0
    /\ UNCHANGED <<fs, par>>

Fields(e, store, flag, hi, ht, si, ri, nea) ==
    [err |-> e, samples |-> store, loaded |-> flag, has_images |-> hi,
     has_texts |-> ht, skip_invalid |-> si, remove_invalid |-> ri,
     non_existing_as_empty |-> nea]

\* DataSet is abstract: this is a concrete subclass that adds nothing to it,
\* its _load_sample being the body of the abstract method (line 196)
DataSet(hi, ht, si, ri) ==
    Construct("DataSet", Fields(DataSet_init(hi, ht), <<>>, FALSE, hi, ht, si, ri, FALSE))

\* lines 234-239: add_sample for each pair of zip(images, texts), from
\* position i (0-based) on
RECURSIVE RawAddAll(_, _, _, _)
RawAddAll(i, images, texts, store) ==
    IF i >= Min(Len(images), Len(texts)) THEN store
    ELSE RawAddAll(i + 1, images, texts,
                   AddSample(store, FALSE,
                             Dict([image |-> images[i + 1], text |-> texts[i + 1],
                                   id |-> str(i)])).samples)

\* RawDataSet.__init__(images, texts), each None or a list
Raw_init(images, texts) ==
    LET hi == images # None
        ht == texts # None
        F(e, store, flag) == Fields(e, store, flag, hi, ht, FALSE, TRUE, FALSE)
    IN IF DataSet_init(hi, ht) # NoError THEN F(DataSet_init(hi, ht), <<>>, FALSE)
       ELSE IF images # None /\ texts # None /\ Len(images.v) = 0 /\ Len(texts.v) = 0
            THEN F(Exception("Empty data set provided.", None), <<>>, FALSE)
       ELSE IF (texts = None \/ Len(texts.v) = 0) /\ images = None
            THEN F(Exception("Empty data set.", None), <<>>, FALSE)
       ELSE LET texts1 == IF texts = None \/ Len(texts.v) = 0
                          THEN Repeat(None, Len(images.v)) ELSE texts.v
                images1 == IF images = None \/ Len(images.v) = 0
                           THEN Repeat(None, Len(texts1)) ELSE images.v
            IN F(NoError, RawAddAll(0, images1, texts1, <<>>), TRUE)

RawDataSet(images, texts) == Construct("RawDataSet", Raw_init(images, texts))

\* a pairing without the comparison of line 302
PairErrorIgnoresBaseName(image, text, nea) ==
    IF image = None /\ text = None
    THEN Exception("An empty data point is not allowed. Both image and text file are None",
                   None)
    ELSE IF Truthy(image) /\ ~nea /\ ~exists(image)
         THEN Exception("Image at '{}' must exist", image)
    ELSE IF Truthy(text) /\ ~nea /\ ~exists(text)
         THEN Exception("Text file at '{}' must exist", text)
    ELSE NoError

\* lines 284-305: the exception a pair raises, or NoError
PairError(image, text, nea) ==
    IF image = None /\ text = None
    THEN Exception("An empty data point is not allowed. Both image and text file are None",
                   None)
    ELSE IF Truthy(image) /\ ~nea /\ ~exists(image)
         THEN Exception("Image at '{}' must exist", image)
    ELSE IF Truthy(text) /\ ~nea /\ ~exists(text)
         THEN Exception("Text file at '{}' must exist", text)
    ELSE IF Truthy(image) /\ Truthy(text) /\ BaseName(image) # BaseName(text)
         THEN Exception("Expected image base name equals text base name but got '{}' != '{}'",
                        Tuple(<<BaseName(image), BaseName(text)>>))
    ELSE NoError

\* lines 313-317: the sample of an accepted pair
PairSample(image, text) ==
    Dict([image_path |-> image, text_path |-> text,
          id |-> IF Truthy(image) THEN BaseName(image)
                 ELSE IF Truthy(text) THEN BaseName(text) ELSE None])

\* lines 282-317: the loop over zip(images, texts) from position i (1-based)
\* on: [err, samples]
RECURSIVE PairAll(_, _, _, _, _, _)
PairAll(i, images, texts, si, nea, store) ==
    IF i > Min(Len(images), Len(texts)) THEN [err |-> NoError, samples |-> store]
    ELSE LET e == PairError(images[i], texts[i], nea)
         IN IF e # NoError
            THEN IF si THEN PairAll(i + 1, images, texts, si, nea, store)
                 ELSE [err |-> e, samples |-> store]
            ELSE PairAll(i + 1, images, texts, si, nea,
                         AddSample(store, FALSE, PairSample(images[i], texts[i])).samples)

\* FileDataSet.__init__(images, texts, skip_invalid, remove_invalid,
\* non_existing_as_empty), images and texts each None or a list
File_init(images, texts, si, ri, nea) ==
    LET hi == images = None \/ Len(images.v) > 0
        ht == texts = None \/ Len(texts.v) > 0
        F(e, store) == Fields(e, store, FALSE, hi, ht, si, ri, nea)
    IN IF DataSet_init(hi, ht) # NoError THEN F(DataSet_init(hi, ht), <<>>)
       ELSE IF images = None \/ texts = None
            THEN \* len(None) at line 276 or 280, or zip(None, ...) at line 282
                 F(TypeError("NoneType"), <<>>)
       ELSE LET texts1 == IF hi /\ ~ht THEN Repeat(None, Len(images.v)) ELSE texts.v
                images1 == IF ht /\ ~hi THEN Repeat(None, Len(texts.v)) ELSE images.v
                r == PairAll(1, images1, texts1, si, nea, <<>>)
            IN F(r.err, r.samples)

FileDataSet(images, texts, si, ri, nea) ==
    Construct("FileDataSet", File_init(images, texts, si, ri, nea))

(***************************************************************************)
(* The inputs of the operations.                                           *)
(***************************************************************************)
Pixels == {NdArray(<<0, 1>>), NdArray(<<0, 0>>)}
Texts == {Str(<<"x">>), Str(<<>>)}
RawImageArgs == {None} \cup {List(s) : s \in SeqsUpTo(Pixels, MaxInit)}
RawTextArgs == {None} \cup {List(s) : s \in SeqsUpTo(Texts, MaxInit)}
FileImageArgs == {None} \cup {List(s) : s \in SeqsUpTo({ImgA, ImgBad, ImgGone, None}, MaxInit)}
FileTextArgs == {None} \cup {List(s) : s \in SeqsUpTo(TextPaths, MaxInit)}

\* the records handed to add_sample: no mapping, mappings without an id,
\* samples of files, samples holding their values
SampleArgs ==
    {None,
     Dict([image_path |-> ImgA, text_path |-> TxtA]),
     Dict([image_path |-> ImgA, text_path |-> TxtA, id |-> Str(<<"f">>)]),
     Dict([image_path |-> ImgGone, text_path |-> TxtGone, id |-> Str(<<"m">>)]),
     Dict([image |-> NdArray(<<0, 1>>), text |-> Str(<<"x">>), id |-> Str(<<>>)])}

\* the records handed to add_sample while load_samples is taken step by
\* step: no mapping, and a sample of two missing files
ParSampleArgs ==
    {None, Dict([image_path |-> ImgGone, text_path |-> TxtGone, id |-> Str(<<"m">>)])}

Init ==
    /\ cls = "none"
    /\ alive = FALSE
    /\ _samples = <<>>
    /\ loaded = FALSE
    /\ has_images = FALSE
    /\ has_texts = FALSE
    /\ skip_invalid = FALSE
    /\ remove_invalid = FALSE
    /\ _non_existing_as_empty = FALSE
    /\ fs = Disk
    /\ call = "none"
    /\ err = NoError
    /\ ret = None
    /\ loads = 0
    /\ par = NoMap

\* an object is constructed once; the operations are then called on it in
\* any order
Next ==
    \/ cls = "none" /\ \E hi, ht, si, ri \in BOOLEAN : DataSet(hi, ht, si, ri)
    \/ cls = "none" /\ \E images \in RawImageArgs, texts \in RawTextArgs :
                          RawDataSet(images, texts)
    \/ cls = "none" /\ \E images \in FileImageArgs, texts \in FileTextArgs,
                             si, ri, nea \in BOOLEAN :
                          FileDataSet(images, texts, si, ri, nea)
    \/ alive /\ \E sample \in SampleArgs : add_sample(sample)
    \/ alive /\ \E processes \in {1, 2} : load_samples(processes)
    \/ alive /\ __len__
    \/ alive /\ samples
    \/ alive /\ prediction_samples
    \/ alive /\ text_samples
    \/ alive /\ \E skip_empty \in BOOLEAN : train_samples(skip_empty)

Spec == Init /\ [][Next]_vars

\* the same object with load_samples taken step by step; the caller waits
\* for load_samples to return before the next call
NextPar ==
    \/ cls = "none" /\ \E hi, ht, si, ri \in BOOLEAN : DataSet(hi, ht, si, ri)
    \/ cls = "none" /\ \E images \in RawImageArgs, texts \in RawTextArgs :
                          RawDataSet(images, texts)
    \/ cls = "none" /\ \E images \in FileImageArgs, texts \in FileTextArgs,
                             si, ri, nea \in BOOLEAN :
                          FileDataSet(images, texts, si, ri, nea)
    \/ alive /\ ~InCall /\ \E sample \in ParSampleArgs : add_sample(sample)
    \/ alive /\ \E processes \in {1, 2} : load_begin(processes)
    \/ alive /\ \E i \in 1..MaxSamples : worker_done(i)
    \/ alive /\ write_back
    \/ alive /\ load_return

SpecPar == Init /\ [][NextPar]_vars

\* the object in the hands of a caller that also edits the records it
\* shares with the store
NextShared ==
    \/ cls = "none" /\ \E hi, ht, si, ri \in BOOLEAN : DataSet(hi, ht, si, ri)
    \/ cls = "none" /\ \E images \in RawImageArgs, texts \in RawTextArgs :
                          RawDataSet(images, texts)
    \/ cls = "none" /\ \E images \in FileImageArgs, texts \in FileTextArgs,
                             si, ri, nea \in BOOLEAN :
                          FileDataSet(images, texts, si, ri, nea)
    \/ alive /\ \E processes \in {1, 2} : load_samples(processes)
    \/ alive /\ \E i \in 1..MaxSamples : del_text(i)
    \/ alive /\ \E skip_empty \in BOOLEAN : train_samples(skip_empty)

SpecShared == Init /\ [][NextShared]_vars

(***************************************************************************)
(* The errors, by kind.                                                    *)
(***************************************************************************)
IsNotLoadedError(e) ==
    /\ e.type = "Exception"
    /\ e.msg \in {"Dataset must be loaded to access its training samples",
                  "Dataset must be loaded to access its text"}
IsInvalidSampleError(e) ==
    /\ e.type = "Exception"
    /\ e.msg \in {"A sample is expected to be a dictionary", "A sample needs an id"}
IsEmptyDataError(e) ==
    e.type = "Exception" /\ e.msg = "Empty data: Image at '{}' is empty"
IsAlwaysLoadedError(e) ==
    e.type = "Exception" /\ e.msg = "Raw dataset is always loaded"

\* the record is a mapping with key id
IsSample(sample) == sample.t = "dict" /\ HasKey(sample, "id")

\* every per-sample load of the store returns
AllLoadsReturn == \A i \in 1..Len(_samples) : ~Raised(_load_sample(_samples[i]))
\* the store with each sample's load result written to it
Written == [i \in 1..Len(_samples) |-> StoreResult(_samples[i], _load_sample(_samples[i]))]
\* the sample holds an invalid image
HoldsInvalidImage(sample) == HasKey(sample, "image") /\ IsInvalidImage(sample.v["image"])

(***************************************************************************)
(* C1: the loaded flag is false after DataSet and FileDataSet              *)
(* construction and true after RawDataSet construction; it turns true      *)
(* only by a load_samples call that completes (or by RawDataSet            *)
(* construction), turns false only by a successful add_sample, and every   *)
(* successful add_sample leaves it false.                                  *)
(***************************************************************************)
C1_LoadedLifecycle ==
    [][/\ (call' = "__init__" /\ cls' \in {"DataSet", "FileDataSet"}) => ~loaded'
       /\ (call' = "__init__" /\ cls' = "RawDataSet" /\ alive') => loaded'
       /\ (~loaded /\ loaded') =>
             \/ call' = "load_samples" /\ err' = NoError
             \/ call' = "__init__" /\ cls' = "RawDataSet" /\ err' = NoError
       /\ (call' = "load_samples" /\ err' = NoError) => loaded'
       /\ (loaded /\ ~loaded') => (call' = "add_sample" /\ err' = NoError)
       /\ (call' = "add_sample" /\ err' = NoError) => ~loaded']_vars

\* an add_sample that followed a completed load of a FileDataSet reset the flag
C1_Witness ==
    /\ alive /\ cls = "FileDataSet" /\ skip_invalid
    /\ call = "add_sample" /\ err = NoError /\ ~loaded
    /\ \E i \in 1..Len(_samples) :
          HasKey(_samples[i], "image_path") /\ HasKey(_samples[i], "image")

(***************************************************************************)
(* C2: while loaded is false, prediction_samples, text_samples and         *)
(* train_samples each raise the not-loaded error and return nothing; while *)
(* loaded is true, prediction_samples and text_samples return the image    *)
(* resp. text field of every stored sample, in store order.                *)
(***************************************************************************)
C2_AccessorsNeedLoaded ==
    alive =>
       /\ ~loaded =>
             /\ IsNotLoadedError(PredictionSamples.err) /\ PredictionSamples.val = None
             /\ IsNotLoadedError(TextSamples.err) /\ TextSamples.val = None
             /\ \A skip_empty \in BOOLEAN :
                   /\ IsNotLoadedError(TrainSamples(skip_empty).err)
                   /\ TrainSamples(skip_empty).val = None
       /\ loaded =>
             /\ PredictionSamples.err = NoError
             /\ PredictionSamples.val =
                   List([i \in 1..Len(_samples) |-> _samples[i].v["image"]])
             /\ TextSamples.err = NoError
             /\ TextSamples.val =
                   List([i \in 1..Len(_samples) |-> _samples[i].v["text"]])
       /\ call \in {"prediction_samples", "text_samples", "train_samples"} =>
             IF loaded THEN err = NoError /\ ret.t \in {"list", "tuple"}
             ELSE IsNotLoadedError(err) /\ ret = NoReturn

\* text_samples returned the texts of a loaded FileDataSet of several samples
C2_Witness ==
    /\ alive /\ cls = "FileDataSet" /\ loaded
    /\ call = "text_samples" /\ err = NoError
    /\ Len(_samples) >= 2 /\ ret = List([i \in 1..Len(_samples) |-> _samples[i].v["text"]])

(***************************************************************************)
(* C3: load_samples on a dataset that is already loaded returns the store  *)
(* as it is, invokes _load_sample for no sample, removes nothing and       *)
(* leaves loaded true.                                                     *)
(***************************************************************************)
C3_LoadIdempotent ==
    [][(loaded /\ call' = "load_samples") =>
          /\ err' = NoError
          /\ ret' = List(_samples)
          /\ _samples' = _samples
          /\ loads' = 0
          /\ loaded']_vars

\* load_samples returned at once on a loaded FileDataSet of several samples
C3_Witness ==
    /\ alive /\ cls = "FileDataSet" /\ loaded
    /\ call = "load_samples" /\ err = NoError /\ loads = 0
    /\ Len(_samples) >= 2

(***************************************************************************)
(* C4: with has_images, skip_invalid and remove_invalid, a load_samples    *)
(* call that loads leaves in the store exactly the samples whose loaded    *)
(* image is valid, in their original order; it fails only if a per-sample  *)
(* load raises.                                                            *)
(***************************************************************************)
C4_RemovesExactlyInvalid ==
    [][(call' = "load_samples" /\ ~loaded /\ has_images /\ skip_invalid /\ remove_invalid) =>
          IF err' = NoError
          THEN /\ loaded'
               /\ _samples' = SelectSeq(Written, LAMBDA s : ~IsInvalidImage(s.v["image"]))
          ELSE ~AllLoadsReturn /\ _samples' = _samples]_vars

\* of three samples the two invalid ones were removed and the valid one kept
C4_Witness ==
    /\ alive /\ cls = "FileDataSet" /\ has_images /\ skip_invalid /\ remove_invalid
    /\ call = "load_samples" /\ err = NoError /\ loaded
    /\ loads = 3 /\ Len(_samples) = 1
    /\ ~IsInvalidImage(_samples[1].v["image"])

(***************************************************************************)
(* C5: a load_samples call that fails (an invalid image under              *)
(* skip_invalid = false, or an error of a per-sample load) leaves loaded   *)
(* false, returns nothing, deletes no sample, and the accessors still      *)
(* raise the not-loaded error.                                             *)
(***************************************************************************)
C5_NoPartialSuccess ==
    [][(call' = "load_samples" /\ err' # NoError) =>
          /\ IsEmptyDataError(err') \/ ~AllLoadsReturn
          /\ ~loaded /\ ~loaded'
          /\ ret' = NoReturn
          /\ Len(_samples') = Len(_samples)
          /\ \A i \in 1..Len(_samples) :
                \A k \in DOMAIN _samples[i].v :
                   /\ k \in DOMAIN _samples'[i].v
                   /\ k \notin {"image", "text"} => _samples'[i].v[k] = _samples[i].v[k]
          /\ IsNotLoadedError(PredictionSamples'.err)
          /\ IsNotLoadedError(TextSamples'.err)
          /\ \A skip_empty \in BOOLEAN : IsNotLoadedError(TrainSamples(skip_empty)'.err)]_vars

\* load_samples raised the empty-data error after it had written a sample
C5_Witness ==
    /\ alive /\ call = "load_samples" /\ IsEmptyDataError(err) /\ ~loaded
    /\ Len(_samples) >= 2
    /\ \E i \in 1..Len(_samples) : HoldsInvalidImage(_samples[i])

(***************************************************************************)
(* C6: when load_samples of a dataset with has_images checks the loaded    *)
(* images (the dataset is not loaded yet and every per-sample load         *)
(* returned) and at least one of them is invalid, it raises the empty-data *)
(* error if skip_invalid is false and completes with loaded = true if      *)
(* skip_invalid is true, whatever remove_invalid is.                       *)
(***************************************************************************)
C6_SkipDecidesRaise ==
    [][(/\ call' = "load_samples" /\ ~loaded /\ has_images /\ AllLoadsReturn
        /\ \E i \in 1..Len(_samples) : IsInvalidImage(Written[i].v["image"])) =>
          IF skip_invalid THEN err' = NoError /\ loaded'
          ELSE IsEmptyDataError(err') /\ ~loaded']_vars

\* the empty-data error was raised with remove_invalid = false
C6_Witness ==
    /\ alive /\ has_images /\ ~skip_invalid /\ ~remove_invalid
    /\ call = "load_samples" /\ IsEmptyDataError(err) /\ ~loaded

(***************************************************************************)
(* C7: with skip_invalid = true and remove_invalid = false, a load_samples *)
(* call that completes leaves loaded true and the store with the same      *)
(* samples in the same order, the invalid ones included.                   *)
(***************************************************************************)
C7_KeepsInvalid ==
    [][(call' = "load_samples" /\ skip_invalid /\ ~remove_invalid /\ err' = NoError) =>
          /\ loaded'
          /\ Len(_samples') = Len(_samples)
          /\ _samples' = IF loaded THEN _samples ELSE Written]_vars

\* a completed load kept a sample with an invalid image in the store
C7_Witness ==
    /\ alive /\ has_images /\ skip_invalid /\ ~remove_invalid
    /\ call = "load_samples" /\ err = NoError /\ loaded /\ loads >= 2
    /\ Len(_samples) = loads
    /\ \E i \in 1..Len(_samples) : HoldsInvalidImage(_samples[i])

(***************************************************************************)
(* C8: a RawDataSet is loaded once constructed, _load_sample is never      *)
(* invoked on it, and load_samples never raises the "always loaded" error. *)
(***************************************************************************)
C8_RawNeverLoads ==
    (cls = "RawDataSet" /\ alive) =>
       /\ call = "__init__" => loaded
       /\ loads = 0
       /\ ~IsAlwaysLoadedError(err)

(***************************************************************************)
(* C9: add_sample of a mapping with key id raises nothing, appends the     *)
(* record at the end of the store, leaving the samples before it as they   *)
(* were, so that the length grows by one, and sets loaded to false.        *)
(***************************************************************************)
C9_AddAppends ==
    [][\A sample \in SampleArgs :
          (IsSample(sample) /\ add_sample(sample)) =>
             /\ err' = NoError
             /\ Len(_samples') = Len(_samples) + 1
             /\ _samples'[Len(_samples')] = sample
             /\ SubSeq(_samples', 1, Len(_samples)) = _samples
             /\ ~loaded']_vars

\* add_sample appended to a loaded store of two samples
C9_Witness ==
    /\ alive /\ call = "add_sample" /\ err = NoError /\ ~loaded
    /\ Len(_samples) = 3
    /\ HasKey(_samples[1], "image") /\ HasKey(_samples[2], "image")
    /\ HasKey(_samples[1], "image_path") /\ ~HasKey(_samples[3], "image")

(***************************************************************************)
(* C10: add_sample of a record that is no mapping or has no key id raises  *)
(* the invalid-sample error and changes neither the store nor the loaded   *)
(* flag.                                                                   *)
(***************************************************************************)
C10_AddRejects ==
    [][\A sample \in SampleArgs :
          (~IsSample(sample) /\ add_sample(sample)) =>
             /\ IsInvalidSampleError(err')
             /\ ret' = NoReturn
             /\ _samples' = _samples
             /\ loaded' = loaded]_vars

\* add_sample raised on a loaded dataset, which is still loaded
C10_Witness ==
    /\ alive /\ call = "add_sample" /\ IsInvalidSampleError(err)
    /\ loaded /\ Len(_samples) >= 1

(***************************************************************************)
(* C11: during load_samples with several workers, for every order in which *)
(* the workers complete their loads, the result written to the sample at   *)
(* position i is the result of _load_sample on that sample, and no sample  *)
(* is written or deleted until every load has completed: while loads are   *)
(* pending the store and the flag stay as they are, and the step that      *)
(* writes leaves what lines 156-177 leave on the results taken in the      *)
(* order of the samples.                                                   *)
(***************************************************************************)
C11_OrderedWriteBack ==
    [][Mapping =>
         IF Pending # {}
         THEN UNCHANGED <<_samples, loaded>>
         ELSE LET r == WriteBack([i \in 1..Len(_samples) |-> _load_sample(_samples[i])])
              IN /\ _samples' = r.samples
                 /\ loaded' = r.loaded
                 /\ err' = r.err
                 /\ r.err = NoError /\ ~(has_images /\ Removes) =>
                        \A i \in 1..Len(_samples) :
                            /\ _samples'[i].v["image"] = _load_sample(_samples[i]).val.v[1]
                            /\ _samples'[i].v["text"] = _load_sample(_samples[i]).val.v[2]]_vars

\* two workers completed out of store order with different results, and
\* the results were then written: load_samples is about to return
C11_Witness ==
    /\ par.phase = "done"
    /\ par.processes = 2
    /\ Len(par.out) >= 2
    /\ par.out[1].i # 1
    /\ \E j \in 2..Len(par.out) : par.out[j].r # par.out[1].r
    /\ call = "load_samples"
    /\ err = NoError
    /\ loaded
    /\ Len(_samples) = Len(par.out)

\* _load_line or _load_gt_txt found no file at the path (lines 331 and 344)
IsMissingFileError(e) ==
    /\ e.type = "Exception"
    /\ e.msg \in {"Image file at '{}' does not exist", "Text file at '{}' does not exist"}

\* the load of the sample fails on a missing file
MissingAtLoad(sample) == IsMissingFileError(File_load_sample(sample).err)

(***************************************************************************)
(* C12: a per-sample load failure on a missing file (non_existing_as_empty *)
(* false) is fatal for the whole batch unless skip_invalid is set: with    *)
(* skip_invalid, load_samples on a FileDataSet that holds such a sample    *)
(* still completes and sets loaded.  The code lets the exception of        *)
(* _load_sample leave parallel_map and load_samples whatever skip_invalid  *)
(* says.                                                                   *)
(***************************************************************************)
C12_SkipInvalidSurvivesMissingFile ==
    [][(/\ call' = "load_samples"
        /\ cls = "FileDataSet"
        /\ ~loaded
        /\ ~_non_existing_as_empty
        /\ \E i \in 1..Len(_samples) : MissingAtLoad(_samples[i]))
       => IF skip_invalid
          THEN err' = NoError /\ loaded'
          ELSE IsMissingFileError(err') /\ ~loaded' /\ _samples' = _samples]_vars

\* the path stored under key names no file
FileGone(sample, key) ==
    HasKey(sample, key) /\ sample.v[key] # None /\ ~exists(sample.v[key])

\* nothing but a missing file stands between the sample and a clean load:
\* it has both paths, and its image, when the file exists, is a valid one
OnlyMissing(sample) ==
    /\ HasKey(sample, "image_path") /\ HasKey(sample, "text_path")
    /\ sample.v["image_path"] = None => ~has_images
    /\ (sample.v["image_path"] # None /\ exists(sample.v["image_path"])) =>
          ~IsInvalidImage(imread(sample.v["image_path"]))

(***************************************************************************)
(* C13: with non_existing_as_empty a FileDataSet sample whose text file is *)
(* missing loads with text "" and one whose image file is missing loads    *)
(* with a 1x1 placeholder image, never an exception: construction does not *)
(* fail on a missing file, _load_sample returns, and load_samples on a     *)
(* store whose only defects are missing files completes, whatever          *)
(* skip_invalid is.  The placeholder of line 342 is flat, so line 162      *)
(* finds it invalid and line 170 raises when skip_invalid is false.        *)
(***************************************************************************)
C13_MissingFileNeverFails ==
    [][/\ (call' = "__init__" /\ cls' = "FileDataSet" /\ _non_existing_as_empty') =>
             ~(err'.type = "Exception" /\ err'.msg \in {"Image at '{}' must exist",
                                                      "Text file at '{}' must exist"})
       /\ (/\ call' = "load_samples"
           /\ cls = "FileDataSet"
           /\ _non_existing_as_empty
           /\ ~loaded
           /\ \A i \in 1..Len(_samples) : OnlyMissing(_samples[i])
           /\ \E i \in 1..Len(_samples) :
                 FileGone(_samples[i], "image_path") \/ FileGone(_samples[i], "text_path"))
          => /\ \A i \in 1..Len(_samples) :
                   LET r == _load_sample(_samples[i])
                   IN /\ ~Raised(r)
                      /\ FileGone(_samples[i], "image_path") => r.val.v[1] = NdArray(<<0>>)
                      /\ FileGone(_samples[i], "text_path") => r.val.v[2] = Str(<<>>)
             /\ err' = NoError
             /\ loaded']_vars

\* the pair is one the claim admits: not both absent, each given file
\* there unless non_existing_as_empty, equal base names when both are given
Admissible(image, text, nea) ==
    /\ ~(image = None /\ text = None)
    /\ (image # None /\ ~nea) => exists(image)
    /\ (text # None /\ ~nea) => exists(text)
    /\ (image # None /\ text # None) => BaseName(image) = BaseName(text)

\* the sample the claim expects of an admissible pair
ExpectedSample(image, text) ==
    Dict([image_path |-> image, text_path |-> text,
          id |-> IF image # None THEN BaseName(image) ELSE BaseName(text)])

\* the expected samples of the admissible pairs, in input order
AdmissiblePairs(images, texts, nea) ==
    LET F[k \in 0..Min(Len(images), Len(texts))] ==
            IF k = 0 THEN <<>>
            ELSE IF Admissible(images[k], texts[k], nea)
                 THEN Append(F[k - 1], ExpectedSample(images[k], texts[k]))
                 ELSE F[k - 1]
    IN F[Min(Len(images), Len(texts))]

C15_NonEmptyId ==
    \A i \in 1..Len(_samples) :
        /\ HasKey(_samples[i], "id")
        /\ _samples[i].v["id"] # None
        /\ _samples[i].v["id"] # Str(<<>>)

(***************************************************************************)
(* C16: round trip of the in-memory dataset.  For every N >= 1 and every   *)
(* list of N images and list of N texts, RawDataSet(images, texts)         *)
(* succeeds, train_samples(false) on the object returns two sequences of   *)
(* length N whose i-th elements are images[i] and texts[i], and the i-th   *)
(* sample has id str(i), i counted from 0.                                 *)
(***************************************************************************)
C16_RawRoundTrip ==
    [][(cls = "none" /\ cls' = "RawDataSet") =>
         \A images \in RawImageArgs \ {None}, texts \in RawTextArgs \ {None} :
            (/\ Len(images.v) >= 1
             /\ Len(texts.v) = Len(images.v)
             /\ RawDataSet(images, texts)) =>
               /\ alive' /\ err' = NoError
               /\ (TrainSamples(FALSE))' = Ok(Tuple(<<images, texts>>))
               /\ Len((TrainSamples(FALSE))'.val.v[1].v) = Len(images.v)
               /\ Len((TrainSamples(FALSE))'.val.v[2].v) = Len(images.v)
               \* the decimal numeral of i, one digit as N <= 10 here
               /\ \A i \in 0..(Len(images.v) - 1) :
                     _samples'[i + 1].v["id"] = Str(<<Digit[i + 1]>>)]_vars

\* train_samples(false) returned the two images and the two texts a
\* RawDataSet was constructed from
C16_Witness ==
    /\ cls = "RawDataSet"
    /\ loaded
    /\ call = "train_samples"
    /\ err = NoError
    /\ ret = Tuple(<<List(<<NdArray(<<0, 1>>), NdArray(<<0, 0>>)>>),
                     List(<<Str(<<"x">>), Str(<<>>)>>)>>)
    /\ _samples[1].v["id"] = Str(<<"0">>)
    /\ _samples[2].v["id"] = Str(<<"1">>)

IsMissingLabelError(e) ==
    /\ e.type = "Exception"
    /\ e.msg = "Sample {} is not a train sample. Maybe the corresponding txt file is missing"

\* the samples of the store that have a text field, in store order
WithText == SelectSeq(_samples, LAMBDA sample : HasKey(sample, "text"))

(***************************************************************************)
(* C17: on a loaded dataset train_samples returns two sequences of equal   *)
(* length whose i-th elements come from the same sample, in store order.   *)
(* A sample lacking a text field (the caller removed it from the shared    *)
(* record) is omitted from both sequences when skip_empty is set, the      *)
(* lengths being reduced by one per such sample and no error raised, and   *)
(* makes the call fail with the missing-label error naming the id of the   *)
(* first such sample when skip_empty is not set.                           *)
(***************************************************************************)
C17_TrainSamplesPairs ==
    [][loaded =>
         \A skip_empty \in BOOLEAN :
            train_samples(skip_empty) =>
               LET lacking == {i \in 1..Len(_samples) : ~HasKey(_samples[i], "text")}
               IN IF lacking = {} \/ skip_empty
                  THEN /\ err' = NoError
                       /\ ret'.t = "tuple"
                       /\ Len(ret'.v[1].v) = Len(ret'.v[2].v)
                       /\ Len(ret'.v[1].v) = Len(_samples) - Cardinality(lacking)
                       /\ \A j \in 1..Len(WithText) :
                             /\ ret'.v[1].v[j] = WithText[j].v["image"]
                             /\ ret'.v[2].v[j] = WithText[j].v["text"]
                  ELSE /\ IsMissingLabelError(err')
                       /\ \E i \in lacking :
                             /\ \A j \in lacking : i <= j
                             /\ err'.arg = _samples[i].v["id"]
                       /\ ret' = NoReturn]_vars

\* train_samples(true) on a loaded FileDataSet of two samples, the first of
\* which lacks its text, returned the image and the text of the second
C17_Witness ==
    /\ cls = "FileDataSet"
    /\ loaded
    /\ call = "train_samples"
    /\ err = NoError
    /\ Len(_samples) = 2
    /\ ~HasKey(_samples[1], "text")
    /\ HasKey(_samples[2], "text")
    /\ _samples[1].v["image"] # _samples[2].v["image"]
    /\ ret = Tuple(<<List(<<_samples[2].v["image"]>>), List(<<_samples[2].v["text"]>>)>>)

\* line 36: the dataset declares neither images nor texts
IsConfigurationError(e) ==
    e.type = "Exception" /\ e.msg = "Empty data set is not allowed."

(***************************************************************************)
(* C18: every construction of a dataset that declares neither images nor   *)
(* texts fails with the configuration error and yields no object: the      *)
(* DataSet base with has_images and has_texts false, RawDataSet with both  *)
(* sequences absent, FileDataSet with both path sequences empty; so no     *)
(* object ever has both flags false.                                       *)
(***************************************************************************)
C18_NeitherImagesNorTexts ==
    [][/\ cls = "none" =>
             /\ \A si, ri \in BOOLEAN :
                   DataSet(FALSE, FALSE, si, ri) =>
                      ~alive' /\ IsConfigurationError(err') /\ ret' = NoReturn
             /\ RawDataSet(None, None) =>
                   ~alive' /\ IsConfigurationError(err') /\ ret' = NoReturn
             /\ \A si, ri, nea \in BOOLEAN :
                   FileDataSet(List(<<>>), List(<<>>), si, ri, nea) =>
                      ~alive' /\ IsConfigurationError(err') /\ ret' = NoReturn
       /\ alive' => has_images' \/ has_texts']_vars

\* the construction of a FileDataSet from two empty path lists failed
C18_Witness ==
    /\ cls = "FileDataSet"
    /\ call = "__init__"
    /\ ~alive
    /\ ~has_images /\ ~has_texts
    /\ IsConfigurationError(err)
    /\ ret = NoReturn

\* b is the sample a, but for the image and the text a load wrote to it
SameSample(a, b) ==
    /\ (DOMAIN a.v) \ {"image", "text"} = (DOMAIN b.v) \ {"image", "text"}
    /\ \A k \in (DOMAIN a.v) \ {"image", "text"} : b.v[k] = a.v[k]

(***************************************************************************)
(* C19: image validation applies only when the dataset declares            *)
(* has_images.  On a dataset with has_images false (such as a texts-only   *)
(* FileDataSet, whose images are all None) load_samples never fails with   *)
(* the empty-data error and never deletes a sample, whatever skip_invalid  *)
(* and remove_invalid are: the store after the call holds the same         *)
(* samples in the same order.                                              *)
(***************************************************************************)
C19_NoValidationWithoutImages ==
    [][(call' = "load_samples" /\ ~has_images) =>
          /\ ~IsEmptyDataError(err')
          /\ err'.type # "IndexError"
          /\ Len(_samples') = Len(_samples)
          /\ \A i \in 1..Len(_samples) : SameSample(_samples[i], _samples'[i])
          /\ (~loaded /\ AllLoadsReturn) => (err' = NoError /\ loaded' /\ _samples' = Written)]_vars

\* a texts-only FileDataSet that skips and removes invalid samples loaded
\* its two samples, whose images are None, and kept both
C19_Witness ==
    /\ cls = "FileDataSet"
    /\ ~has_images
    /\ skip_invalid /\ remove_invalid
    /\ call = "load_samples"
    /\ err = NoError
    /\ loaded
    /\ loads = 2
    /\ Len(_samples) = 2
    /\ \A i \in 1..2 : _samples[i].v["image"] = None

(***************************************************************************)
(* C20: in every state reached through the constructors, add_sample and    *)
(* load_samples, loaded implies that every sample of the store carries an  *)
(* image field and a text field (possibly None); hence on such a dataset   *)
(* train_samples never meets a sample lacking text: it returns, for either *)
(* skip_empty, two sequences whose length is the length of the dataset.    *)
(***************************************************************************)
C20_LoadedSamplesComplete ==
    (alive /\ loaded) =>
       /\ \A i \in 1..Len(_samples) :
             HasKey(_samples[i], "image") /\ HasKey(_samples[i], "text")
       /\ \A skip_empty \in BOOLEAN :
             LET r == TrainSamples(skip_empty)
             IN /\ r.err = NoError
                /\ Len(r.val.v[1].v) = Len(_samples)
                /\ Len(r.val.v[2].v) = Len(_samples)
       /\ call = "train_samples" => (err = NoError /\ Len(ret.v[1].v) = Len(_samples))

\* train_samples returned on a FileDataSet that was loaded again after
\* add_sample had added a third sample
C20_Witness ==
    /\ cls = "FileDataSet"
    /\ loaded
    /\ call = "train_samples"
    /\ err = NoError
    /\ Len(_samples) = 3
    /\ Len(ret.v[2].v) = 3
    /\ HasKey(_samples[3], "id") /\ _samples[3].v["id"] = Str(<<"m">>)

====
